---- MODULE Spec2Model ----
(***************************************************************************)
(* Model of server.js: an Express application serving an in-memory product *)
(* collection.  The state is the `products` array together with the last   *)
(* request, the response sent for it, the stages that ran for it, and the  *)
(* console log.  Every request is one action that walks the layer stack    *)
(* in registration order, exactly as the Express router does.              *)
(***************************************************************************)
EXTENDS Integers, Sequences, FiniteSets, TLC

VARIABLES products, req, res, trace, sent, log, issued, nreq, err

vars == <<products, req, res, trace, sent, log, issued, nreq, err>>

(* ------------------------------ bounds -------------------------------- *)
\* number of requests served in one behaviour
MaxRequests == 2

(* ---------------------------- JS values ------------------------------- *)
\* A JavaScript value: its typeof tag, its number and its string content.
Undef == [t |-> "undefined", n |-> 0, s |-> ""]
Str(x) == [t |-> "string", n |-> 0, s |-> x]
Num(k) == [t |-> "number", n |-> k, s |-> ""]
Bool(b) == [t |-> "boolean", n |-> IF b THEN 1 ELSE 0, s |-> ""]

\* JavaScript truthiness (the `!x` of validateProduct, `if (category)`)
Truthy(v) ==
    CASE v.t = "undefined" -> FALSE
      [] v.t = "string" -> v.s # ""
      [] v.t = "number" -> v.n # 0
      [] v.t = "boolean" -> v.n = 1
      [] OTHER -> TRUE

Fields == {"id", "name", "description", "price", "category", "inStock"}
DataFields == Fields \ {"id"}

Product(i, n, d, p, c, s) ==
    [id |-> i, name |-> n, description |-> d, price |-> p,
     category |-> c, inStock |-> s]

\* the absent object (find() returning undefined, an empty body)
NoProduct == Product(Undef, Undef, Undef, Undef, Undef, Undef)

SeedProducts ==
    << Product(Str("1"), Str("Laptop"), Str("High-performance laptop with 16GB RAM"),
               Num(1200), Str("electronics"), Bool(TRUE)),
       Product(Str("2"), Str("Smartphone"), Str("Latest model with 128GB storage"),
               Num(800), Str("electronics"), Bool(TRUE)),
       Product(Str("3"), Str("Coffee Maker"), Str("Programmable coffee maker with timer"),
               Num(50), Str("kitchen"), Bool(FALSE)) >>

\* uuidv4(): the k-th identifier handed out; never a seeded id, never repeated
Uuids == << "uuid-1", "uuid-2", "uuid-3", "uuid-4", "uuid-5", "uuid-6" >>
uuidv4(k) == Str(Uuids[k + 1])

(* --------------------------- array helpers ---------------------------- *)
RECURSIVE FindIndexFrom(_, _, _)
FindIndexFrom(arr, id, i) ==
    IF i > Len(arr) THEN 0
    ELSE IF arr[i].id = id THEN i
    ELSE FindIndexFrom(arr, id, i + 1)

\* Array.prototype.findIndex(p => p.id === id), 1-based; 0 stands for -1
findIndex(arr, id) == FindIndexFrom(arr, id, 1)

\* a removal that drops the last element whatever the index
splicePop(arr, index) == SubSeq(arr, 1, Len(arr) - 1)

\* Array.prototype.splice(index, 1)
splice(arr, index) ==
    [k \in 1..(Len(arr) - 1) |-> IF k < index THEN arr[k] ELSE arr[k + 1]]

\* { id: target.id, ...body }: the body replaces the record
ShallowMergeReplacing(target, body) ==
    [f \in Fields |-> IF f = "id" THEN target.id ELSE body[f]]

\* { ...target, ...body }: keys present in body overwrite
ShallowMerge(target, body) ==
    [f \in Fields |-> IF body[f] # Undef THEN body[f] ELSE target[f]]

(* ----------------------- requests and responses ----------------------- *)
Query(c, p, l, s) == [category |-> c, page |-> p, limit |-> l, search |-> s]
NoQuery == Query(Undef, Undef, Undef, Undef)

\* req: method, path segments, req.params.id, the x-api-key header,
\* req.body (absent keys are Undef) and req.query
\* and when it arrived
Request(m, p, k, b, q, t) ==
    [method |-> m, path |-> p, params |-> "", key |-> k, body |-> b, query |-> q,
     malformed |-> FALSE, time |-> t]
NoRequest == Request("", <<>>, Undef, NoProduct, NoQuery, 0)

\* a JavaScript number that may be NaN (the result of parseInt)
Int32(v) == [nan |-> FALSE, v |-> v]
NaN == [nan |-> TRUE, v |-> 0]

NoStats == [c \in {} |-> 0]

\* the response: status code and the JSON (or text) body that was sent
Response(st, sh, e, m, p, ps, tot, pg, lim, stt) ==
    [status |-> st, shape |-> sh, error |-> e, message |-> m, product |-> p,
     products |-> ps, total |-> tot, page |-> pg, limit |-> lim, stats |-> stt]
NoResponse == Response(0, "none", "", "", NoProduct, <<>>, 0, Int32(0), Int32(0), NoStats)
ErrorJson(st, e) == Response(st, "error", e, "", NoProduct, <<>>, 0, Int32(0), Int32(0), NoStats)
ErrorMessageJson(st, e, m) ==
    Response(st, "error", e, m, NoProduct, <<>>, 0, Int32(0), Int32(0), NoStats)
ProductJson(st, p) == Response(st, "product", "", "", p, <<>>, 0, Int32(0), Int32(0), NoStats)
ArrayJson(ps) == Response(200, "array", "", "", NoProduct, ps, 0, Int32(0), Int32(0), NoStats)
PageJson(tot, pg, lim, ps) ==
    Response(200, "page", "", "", NoProduct, ps, tot, pg, lim, NoStats)
StatsJson(stt) == Response(200, "stats", "", "", NoProduct, <<>>, 0, Int32(0), Int32(0), stt)
TextBody(st, m) == Response(st, "text", "", m, NoProduct, <<>>, 0, Int32(0), Int32(0), NoStats)
EmptyBody(st) == Response(st, "empty", "", "", NoProduct, <<>>, 0, Int32(0), Int32(0), NoStats)

\* The processing context of one request: the collection, the uuid counter,
\* the console, the response, the number of responses sent, the stages run
\* so far, and whether the stage just run called next().
\* an Error object: its class, name, status and message ("" = nothing thrown)
Error(cls, nm, st, msg) == [class |-> cls, name |-> nm, status |-> st, message |-> msg]
NoError == Error("", "", 0, "")

Context(ps, iss, lg, rs, sn, tr, nx) ==
    [products |-> ps, issued |-> iss, log |-> lg, res |-> rs, sent |-> sn,
     trace |-> tr, next |-> nx, err |-> NoError]

\* res.status(..).json(..) / res.send(..): the first send wins, a stage that
\* sends does not call next()
Send(c, name, r) ==
    [c EXCEPT !.res = IF c.sent = 0 THEN r ELSE c.res,
              !.sent = c.sent + 1,
              !.trace = Append(c.trace, name),
              !.next = FALSE]

\* a stage that only calls next()
Pass(c, name) == [c EXCEPT !.trace = Append(c.trace, name), !.next = TRUE]

\* a stage that throws, or calls next(err)
Throw(c, name, e) ==
    [c EXCEPT !.trace = Append(c.trace, name), !.next = TRUE, !.err = e]

(* ------------------------------ handlers ------------------------------ *)
\* app.use(bodyParser.json()): a body that is not JSON is passed on as an error
bodyParser(rq, c) ==
    IF rq.malformed
    THEN Throw(c, "bodyParser", Error("SyntaxError", "SyntaxError", 400, "Unexpected token"))
    ELSE Pass(c, "bodyParser")

\* app.get('/')
getRoot(rq, c) ==
    Send(c, "getRoot",
         TextBody(200, "Welcome to the Product API! Go to /api/products to see all products."))

\* a listing that reverses the array in place before sending it
getAllProductsReversing(rq, c) ==
    Send([c EXCEPT !.products = [k \in 1..Len(c.products) |->
                                    c.products[Len(c.products) + 1 - k]]],
         "getAllProducts",
         ArrayJson([k \in 1..Len(c.products) |-> c.products[Len(c.products) + 1 - k]]))

\* app.get('/api/products') -- first registration
getAllProducts(rq, c) == Send(c, "getAllProducts", ArrayJson(c.products))

\* app.get('/api/products/:id')
getProductById(rq, c) ==
    LET index == findIndex(c.products, Str(rq.params))
    IN  IF index = 0
        THEN Send(c, "getProductById", ErrorJson(404, "Product not found"))
        ELSE Send(c, "getProductById", ProductJson(200, c.products[index]))

\* a create that leaves `description` out of the stored record
CreateBodyWithoutDescription(rq, c, name) ==
    LET product == Product(uuidv4(c.issued), rq.body.name, Undef,
                           rq.body.price, rq.body.category, rq.body.inStock)
    IN  Send([c EXCEPT !.products = Append(c.products, product),
                       !.issued = c.issued + 1],
             name, ProductJson(201, product))

\* the body of both POST handlers
CreateBody(rq, c, name) ==
    LET product == Product(uuidv4(c.issued), rq.body.name, rq.body.description,
                           rq.body.price, rq.body.category, rq.body.inStock)
    IN  Send([c EXCEPT !.products = Append(c.products, product),
                       !.issued = c.issued + 1],
             name, ProductJson(201, product))

\* a create handler that answers and then also calls next()
createProductCallingNext(rq, c) ==
    [CreateBody(rq, c, "createProduct") EXCEPT !.next = TRUE]

\* app.post('/api/products') -- first registration
createProduct(rq, c) == CreateBody(rq, c, "createProduct")

\* the body of both PUT handlers
UpdateBody(rq, c, name) ==
    LET index == findIndex(c.products, Str(rq.params))
    IN  IF index = 0
        THEN Send(c, name, ErrorJson(404, "Product not found"))
        ELSE LET merged == ShallowMerge(c.products[index], rq.body)
             IN  Send([c EXCEPT !.products = [c.products EXCEPT ![index] = merged]],
                      name, ProductJson(200, merged))

\* app.put('/api/products/:id') -- first registration
updateProduct(rq, c) == UpdateBody(rq, c, "updateProduct")

\* a delete without the not-found guard: splice(-1, 1) drops the last record
deleteProductUnguarded(rq, c) ==
    LET index == findIndex(c.products, Str(rq.params))
    IN  Send([c EXCEPT !.products =
                 IF index = 0 THEN SubSeq(c.products, 1, Len(c.products) - 1)
                 ELSE splice(c.products, index)],
             "deleteProduct", EmptyBody(204))

\* app.delete('/api/products/:id')
deleteProduct(rq, c) ==
    LET index == findIndex(c.products, Str(rq.params))
    IN  IF index = 0
        THEN Send(c, "deleteProduct", ErrorJson(404, "Product not found"))
        ELSE Send([c EXCEPT !.products = splice(c.products, index)],
                  "deleteProduct", EmptyBody(204))

\* the line written to the console: timestamp, method and original url
LogLine(rq) == [time |-> rq.time, method |-> rq.method, path |-> rq.path,
                query |-> rq.query]

\* custom logger middleware
logger(rq, c) == Pass([c EXCEPT !.log = Append(c.log, LogLine(rq))], "logger")

\* authentication middleware
authenticate(rq, c) ==
    IF rq.key # Str("my-secret-key")
    THEN Send(c, "authenticate", ErrorJson(401, "Unauthorized: Invalid API key"))
    ELSE Pass(c, "authenticate")

\* validation middleware
validateProduct(rq, c) ==
    IF \/ ~Truthy(rq.body.name)
       \/ ~Truthy(rq.body.description)
       \/ rq.body.price.t # "number"
       \/ ~Truthy(rq.body.category)
       \/ rq.body.inStock.t # "boolean"
    THEN Send(c, "validateProduct", ErrorJson(400, "ValidationError: Invalid product data"))
    ELSE Pass(c, "validateProduct")


(* ------------------------- strings and numbers ------------------------ *)
\* the characters of the strings that occur as names and query values
CharsOf(x) ==
    CASE x = "" -> <<>>
      [] x = "1" -> <<"1">>
      [] x = "2" -> <<"2">>
      [] x = "-1" -> <<"-", "1">>
      [] x = "x" -> <<"x">>
      [] x = "lap" -> <<"l", "a", "p">>
      [] x = "PHONE" -> <<"P", "H", "O", "N", "E">>
      [] x = "Laptop" -> <<"L", "a", "p", "t", "o", "p">>
      [] x = "Smartphone" -> <<"S", "m", "a", "r", "t", "p", "h", "o", "n", "e">>
      [] x = "Coffee Maker" -> <<"C", "o", "f", "f", "e", "e", " ", "M", "a", "k", "e", "r">>
      [] x = "Mouse" -> <<"M", "o", "u", "s", "e">>

UpperCase == <<"C", "E", "H", "L", "M", "N", "O", "P", "S">>
LowerCase == <<"c", "e", "h", "l", "m", "n", "o", "p", "s">>

LowerChar(ch) ==
    IF \E k \in 1..Len(UpperCase) : UpperCase[k] = ch
    THEN LowerCase[CHOOSE k \in 1..Len(UpperCase) : UpperCase[k] = ch]
    ELSE ch

\* String.prototype.toLowerCase on a character sequence
toLowerCase(cs) == [k \in 1..Len(cs) |-> LowerChar(cs[k])]

\* String.prototype.includes
includes(hay, needle) ==
    \E off \in 0..(Len(hay) - Len(needle)) :
        \A k \in 1..Len(needle) : hay[off + k] = needle[k]

Digits == <<"0", "1", "2", "3", "4", "5", "6", "7", "8", "9">>
IsDigit(ch) == \E k \in 1..10 : Digits[k] = ch
DigitVal(ch) == (CHOOSE k \in 1..10 : Digits[k] = ch) - 1

RECURSIVE ParseDigits(_, _, _, _)
ParseDigits(cs, i, acc, seen) ==
    IF i > Len(cs) \/ ~IsDigit(cs[i])
    THEN IF seen THEN Int32(acc) ELSE NaN
    ELSE ParseDigits(cs, i + 1, acc * 10 + DigitVal(cs[i]), TRUE)

\* parseInt: an optional sign, then the leading decimal digits; NaN if none
parseInt(v) ==
    CASE v.t = "number" -> Int32(v.n)
      [] v.t = "string" ->
            LET cs == CharsOf(v.s)
            IN  IF Len(cs) > 0 /\ cs[1] = "-"
                THEN LET m == ParseDigits(cs, 2, 0, FALSE)
                     IN  IF m.nan THEN NaN ELSE Int32(0 - m.v)
                ELSE ParseDigits(cs, 1, 0, FALSE)
      [] OTHER -> NaN

NumSub(a, b) == IF a.nan \/ b.nan THEN NaN ELSE Int32(a.v - b.v)
NumAdd(a, b) == IF a.nan \/ b.nan THEN NaN ELSE Int32(a.v + b.v)
NumMul(a, b) == IF a.nan \/ b.nan THEN NaN ELSE Int32(a.v * b.v)

Max(a, b) == IF a > b THEN a ELSE b
Min(a, b) == IF a < b THEN a ELSE b

\* the relative index of Array.prototype.slice: NaN is 0, negative counts from the end
RelIndex(x, len) ==
    IF x.nan THEN 0
    ELSE IF x.v < 0 THEN Max(len + x.v, 0) ELSE Min(x.v, len)

\* Array.prototype.slice(start, end), arguments 0-based
slice(arr, start, end) ==
    LET k == RelIndex(start, Len(arr))
        final == RelIndex(end, Len(arr))
    IN  [j \in 1..Max(final - k, 0) |-> arr[k + j]]


\* page = 1, limit = 10: the defaults of the destructuring
Default(v, d) == IF v = Undef THEN d ELSE v

\* app.get('/api/products') -- filter / search / paginate registration
listProducts(rq, c) ==
    LET category == rq.query.category
        search == rq.query.search
        page == parseInt(Default(rq.query.page, Num(1)))
        limit == parseInt(Default(rq.query.limit, Num(10)))
        HasCategory(p) == p.category = category
        HasName(p) == includes(toLowerCase(CharsOf(p.name.s)), toLowerCase(CharsOf(search.s)))
        byCategory == IF Truthy(category) THEN SelectSeq(c.products, HasCategory)
                      ELSE c.products
        nameless == \E k \in 1..Len(byCategory) : byCategory[k].name.t # "string"
        result == IF Truthy(search) THEN SelectSeq(byCategory, HasName) ELSE byCategory
        start == NumMul(NumSub(page, Int32(1)), limit)
        end == NumAdd(start, limit)
    IN  IF Truthy(search) /\ nameless
        THEN Throw(c, "listProducts",
                   Error("TypeError", "TypeError", 0, "p.name.toLowerCase is not a function"))
        ELSE Send(c, "listProducts",
                  PageJson(Len(result), page, limit, slice(result, start, end)))

\* the property key a value is converted to
PropertyKey(v) ==
    CASE v.t = "string" -> v.s
      [] v.t = "number" -> ToString(v.n)
      [] v.t = "boolean" -> IF v.n = 1 THEN "true" ELSE "false"
      [] OTHER -> "undefined"

\* stats[p.category] = (stats[p.category] || 0) + 1, over the whole array
CountByCategory(arr) ==
    [k \in {PropertyKey(arr[i].category) : i \in 1..Len(arr)} |->
        Cardinality({i \in 1..Len(arr) : PropertyKey(arr[i].category) = k})]

\* app.get('/api/products/stats')
getStats(rq, c) == Send(c, "getStats", StatsJson(CountByCategory(c.products)))

\* the handlers of app.post(..., authenticate, validateProduct, ...) and
\* app.put(..., authenticate, validateProduct, ...)
createProductGuarded(rq, c) == CreateBody(rq, c, "createProductGuarded")
updateProductGuarded(rq, c) == UpdateBody(rq, c, "updateProductGuarded")

\* an error responder that trusts any err.status
errorHandlerByStatus(rq, c) ==
    IF c.err.status # 0
    THEN Send(c, "errorHandler", ErrorMessageJson(c.err.status, c.err.name, c.err.message))
    ELSE Send(c, "errorHandler", ErrorMessageJson(500, "InternalServerError", c.err.message))

\* global error handling middleware
errorHandler(rq, c) ==
    IF c.err.class = "NotFoundError" \/ c.err.class = "ValidationError"
    THEN Send(c, "errorHandler", ErrorMessageJson(c.err.status, c.err.name, c.err.message))
    ELSE Send(c, "errorHandler", ErrorMessageJson(500, "InternalServerError", c.err.message))

\* custom error classes
NotFoundError(message) == Error("NotFoundError", "NotFoundError", 404, message)
ValidationError(message) == Error("ValidationError", "ValidationError", 400, message)


(* ----------------------------- the router ----------------------------- *)
Use(h) == [kind |-> "use", method |-> "", pattern |-> <<>>, chain |-> <<h>>]
Route(m, pat, ch) == [kind |-> "route", method |-> m, pattern |-> pat, chain |-> ch]
ErrorUse(h) == [kind |-> "error", method |-> "", pattern |-> <<>>, chain |-> <<h>>]

Collection == <<"api", "products">>
Item == <<"api", "products", ":id">>

\* the layer stack of `app`, in registration order
Layers ==
    << Use("bodyParser"),
       Route("GET", <<>>, <<"getRoot">>),
       Route("GET", Collection, <<"getAllProducts">>),
       Route("GET", Item, <<"getProductById">>),
       Route("POST", Collection, <<"createProduct">>),
       Route("PUT", Item, <<"updateProduct">>),
       Route("DELETE", Item, <<"deleteProduct">>),
       Use("logger"),
       Route("GET", Collection, <<"listProducts">>),
       Route("GET", <<"api", "products", "stats">>, <<"getStats">>),
       Route("POST", Collection, <<"authenticate", "validateProduct", "createProductGuarded">>),
       Route("PUT", Item, <<"authenticate", "validateProduct", "updateProductGuarded">>),
       ErrorUse("errorHandler") >>

\* does the layer take the request: app.use takes every path; a route takes
\* its method and a path of the same segments, `:id` capturing any segment
Matches(layer, rq) ==
    \/ layer.kind = "use"
    \/ /\ layer.kind = "route"
       /\ layer.method = rq.method
       /\ Len(layer.pattern) = Len(rq.path)
       /\ \A k \in 1..Len(rq.path) :
             layer.pattern[k] = ":id" \/ layer.pattern[k] = rq.path[k]

\* req.params.id as captured by the layer
WithParams(layer, rq) ==
    IF \E k \in 1..Len(layer.pattern) : layer.pattern[k] = ":id"
    THEN [rq EXCEPT !.params = rq.path[CHOOSE k \in 1..Len(layer.pattern) :
                                           layer.pattern[k] = ":id"]]
    ELSE rq

Apply(h, rq, c) ==
    CASE h = "bodyParser" -> bodyParser(rq, c)
      [] h = "getRoot" -> getRoot(rq, c)
      [] h = "getAllProducts" -> getAllProducts(rq, c)
      [] h = "getProductById" -> getProductById(rq, c)
      [] h = "createProduct" -> createProduct(rq, c)
      [] h = "updateProduct" -> updateProduct(rq, c)
      [] h = "deleteProduct" -> deleteProduct(rq, c)
      [] h = "logger" -> logger(rq, c)
      [] h = "listProducts" -> listProducts(rq, c)
      [] h = "getStats" -> getStats(rq, c)
      [] h = "authenticate" -> authenticate(rq, c)
      [] h = "validateProduct" -> validateProduct(rq, c)
      [] h = "createProductGuarded" -> createProductGuarded(rq, c)
      [] h = "updateProductGuarded" -> updateProductGuarded(rq, c)
      [] h = "errorHandler" -> errorHandler(rq, c)

\* the one element of a singleton set
Only(S) == CHOOSE x \in S : TRUE

\* the handlers of one route, each run only if the one before called next()
RECURSIVE RunChain(_, _, _, _)
RunChain(chain, k, rq, c) ==
    Only({ IF c1.next /\ c1.err = NoError /\ k < Len(chain)
           THEN RunChain(chain, k + 1, rq, c1)
           ELSE c1 : c1 \in {Apply(chain[k], rq, c)} })

\* what Express answers when the stack is exhausted
finalhandler(rq, c) ==
    IF c.err # NoError
    THEN Send(c, "finalhandler",
              TextBody(IF c.err.status >= 400 THEN c.err.status ELSE 500, c.err.message))
    ELSE Send(c, "finalhandler", TextBody(404, "Not Found"))

\* the walk over the stack from layer i: a pending error skips to the error
\* middleware, otherwise each matching layer runs until one does not call next()
RECURSIVE Run(_, _, _)
Run(i, rq, c) ==
    IF i > Len(Layers) THEN finalhandler(rq, c)
    ELSE IF c.err # NoError
    THEN IF Layers[i].kind = "error"
         THEN Only({ IF c1.next THEN Run(i + 1, rq, c1) ELSE c1 :
                     c1 \in {Apply(Layers[i].chain[1], rq, c)} })
         ELSE Run(i + 1, rq, c)
    ELSE IF Layers[i].kind # "error" /\ Matches(Layers[i], rq)
    THEN Only({ IF c1.next THEN Run(i + 1, rq, c1) ELSE c1 :
                c1 \in {RunChain(Layers[i].chain, 1, WithParams(Layers[i], rq), c)} })
    ELSE Run(i + 1, rq, c)

(* ------------------------------ inputs -------------------------------- *)
\* x-api-key: absent, wrong, right
Keys == {Undef, Str("wrong-key"), Str("my-secret-key")}

\* ids a client puts in the path
PathIds == {"1", "2", "stats", "uuid-1"}

ValidBody == Product(Undef, Str("Mouse"), Str("Wireless mouse"), Num(25),
                     Str("kitchen"), Bool(TRUE))

\* request bodies: the valid body, the bodies that fail one check of the
\* validator, a body that names an id, and the partial bodies
Bodies ==
    { ValidBody,
      [ValidBody EXCEPT !.name = Str("")],
      [ValidBody EXCEPT !.description = Undef],
      [ValidBody EXCEPT !.price = Str("25")],
      [ValidBody EXCEPT !.category = Undef],
      [ValidBody EXCEPT !.inStock = Str("true")],
      [ValidBody EXCEPT !.id = Str("2")],
      [NoProduct EXCEPT !.price = Num(99)],
      [NoProduct EXCEPT !.id = Str("stats")],
      NoProduct }

\* the header and body of a create or update request: every body with the
\* right key, and a valid and an invalid body with each other key
Submissions ==
    {<<Str("my-secret-key"), b>> : b \in Bodies}
        \cup {<<k, b>> : k \in Keys, b \in {ValidBody, [ValidBody EXCEPT !.description = Undef]}}

Queries ==
    { NoQuery,
      Query(Str("electronics"), Undef, Undef, Undef),
      Query(Undef, Str("1"), Str("2"), Undef),
      Query(Str("electronics"), Str("2"), Str("1"), Undef),
      Query(Undef, Undef, Undef, Str("lap")),
      Query(Undef, Str("x"), Undef, Undef) }

(* ------------------------------ the system ---------------------------- *)
Init ==
    /\ products = SeedProducts
    /\ req = NoRequest
    /\ res = NoResponse
    /\ trace = <<>>
    /\ sent = 0
    /\ log = <<>>
    /\ issued = 0
    /\ nreq = 0
    /\ err = NoError

\* one request served to completion; e is the error, if any, that is raised
\* before the first layer answers
ServeWith(rq, e) ==
    /\ nreq < MaxRequests
    /\ \E c \in {Run(1, rq, [Context(products, issued, log, NoResponse, 0, <<>>, TRUE)
                                 EXCEPT !.err = e])} :
           /\ products' = c.products
           /\ issued' = c.issued
           /\ log' = c.log
           /\ res' = c.res
           /\ sent' = c.sent
           /\ trace' = c.trace
           /\ err' = c.err
    /\ req' = rq
    /\ nreq' = nreq + 1

Serve(rq) == ServeWith(rq, NoError)

GetRoot == Serve(Request("GET", <<>>, Undef, NoProduct, NoQuery, nreq))

GetProducts == \E q \in Queries : Serve(Request("GET", Collection, Undef, NoProduct, q, nreq))

GetProduct ==
    \E id \in PathIds \ {"stats"} :
        Serve(Request("GET", <<"api", "products", id>>, Undef, NoProduct, NoQuery, nreq))

GetStats ==
    Serve(Request("GET", <<"api", "products", "stats">>, Undef, NoProduct, NoQuery, nreq))

PostProduct ==
    \E sub \in Submissions :
        Serve(Request("POST", Collection, sub[1], sub[2], NoQuery, nreq))

PutProduct ==
    \E id \in PathIds, sub \in Submissions :
        Serve(Request("PUT", <<"api", "products", id>>, sub[1], sub[2], NoQuery, nreq))

DeleteProduct ==
    \E id \in PathIds :
        Serve(Request("DELETE", <<"api", "products", id>>, Undef, NoProduct, NoQuery, nreq))

\* a body that does not parse as JSON
PostMalformed ==
    \E k \in {Undef, Str("my-secret-key")} :
        Serve([Request("POST", Collection, k, NoProduct, NoQuery, nreq)
                  EXCEPT !.malformed = TRUE])

\* an update whose body does not parse as JSON
PutMalformed ==
    \E id \in PathIds :
        Serve([Request("PUT", <<"api", "products", id>>, Str("my-secret-key"), NoProduct,
                       NoQuery, nreq)
                  EXCEPT !.malformed = TRUE])

\* a method and path no route is registered for
GetUnknown == Serve(Request("GET", <<"api", "orders">>, Undef, NoProduct, NoQuery, nreq))

Next ==
    \/ GetRoot
    \/ GetProducts
    \/ GetProduct
    \/ GetStats
    \/ PostProduct
    \/ PutProduct
    \/ DeleteProduct
    \/ PostMalformed
    \/ PutMalformed
    \/ GetUnknown

Spec == Init /\ [][Next]_vars

\* the errors a stage may raise: the two custom classes, and errors of other
\* classes with and without a status of their own
Messages == {"Product not found", "Invalid product data", ""}

Errors ==
    {NotFoundError(m) : m \in Messages}
        \cup {ValidationError(m) : m \in Messages}
        \cup {Error("SyntaxError", "SyntaxError", 400, m) : m \in Messages}
        \cup {Error("Error", "Error", 404, m) : m \in Messages}
        \cup {Error("TypeError", "TypeError", 0, m) : m \in Messages}

\* a request during which an error is raised and passed to the error middleware
RaiseError ==
    \E e \in Errors, m \in {"GET", "PUT", "DELETE"} :
        ServeWith(Request(m, <<"api", "products", "1">>, Str("my-secret-key"), ValidBody,
                          NoQuery, nreq), e)

NextErr == Next \/ RaiseError

SpecErr == Init /\ [][NextErr]_vars


(* ------------------------ vocabulary of the claims -------------------- *)
IsCreate(rq) == rq.method = "POST" /\ rq.path = Collection
IsUpdate(rq) == rq.method = "PUT" /\ Len(rq.path) = 3 /\ SubSeq(rq.path, 1, 2) = Collection
IsDelete(rq) == rq.method = "DELETE" /\ Len(rq.path) = 3 /\ SubSeq(rq.path, 1, 2) = Collection
IsList(rq) == rq.method = "GET" /\ rq.path = Collection
IsStats(rq) == rq.method = "GET" /\ rq.path = <<"api", "products", "stats">>

\* the body passes the five checks of the validator
BodyValid(b) ==
    /\ Truthy(b.name)
    /\ Truthy(b.description)
    /\ b.price.t = "number"
    /\ Truthy(b.category)
    /\ b.inStock.t = "boolean"

\* the answer to GET /api/products/:id issued against the collection ps
FetchById(ps, id) ==
    Run(1, Request("GET", <<"api", "products", id>>, Undef, NoProduct, NoQuery, 0),
        Context(ps, 0, <<>>, NoResponse, 0, <<>>, TRUE)).res

(* --------------------------------- C1 --------------------------------- *)
\* C1: every POST /api/products and PUT /api/products/:id whose x-api-key is
\* absent or wrong is answered 401 {error: "Unauthorized: Invalid API key"}
\* and leaves the product collection as it was.
C1_UnauthorizedRejected ==
    [][ ((IsCreate(req') \/ IsUpdate(req')) /\ ~req'.malformed
            /\ req'.key # Str("my-secret-key"))
        => (res' = ErrorJson(401, "Unauthorized: Invalid API key") /\ products' = products) ]_vars

(* --------------------------------- C2 --------------------------------- *)
\* C2: every POST /api/products and PUT /api/products/:id with the right key
\* and a body that fails the validator's check is answered 400
\* {error: "ValidationError: Invalid product data"} and leaves the collection
\* as it was.
C2_InvalidRejected ==
    [][ ((IsCreate(req') \/ IsUpdate(req')) /\ ~req'.malformed
            /\ req'.key = Str("my-secret-key") /\ ~BodyValid(req'.body))
        => (res' = ErrorJson(400, "ValidationError: Invalid product data")
            /\ products' = products) ]_vars

(* --------------------------------- C3 --------------------------------- *)
\* C3: after any sequence of requests no two products of the collection have
\* the same id.
C3_UniqueIds ==
    \A i, j \in 1..Len(products) : i # j => products[i].id # products[j].id

(* --------------------------------- C4 --------------------------------- *)
\* C4: after every successful PUT /api/products/:id the record at the updated
\* position, and the record in the response, have the id of the path.
C4_IdImmutable ==
    [][ (IsUpdate(req') /\ res'.status = 200)
        => LET index == findIndex(products, Str(req'.path[3]))
           IN  /\ index # 0
               /\ products'[index].id = Str(req'.path[3])
               /\ res'.product.id = Str(req'.path[3]) ]_vars

(* --------------------------------- C5 --------------------------------- *)
\* C5: after a create answered 201, GET /api/products/:id with the returned
\* id answers 200 with the returned id and the five submitted field values.
C5_CreateRoundTrip ==
    (IsCreate(req) /\ res.status = 201)
    => LET got == FetchById(products, res.product.id.s)
       IN  /\ res.product.id.t = "string"
           /\ got.status = 200
           /\ got.shape = "product"
           /\ got.product.id = res.product.id
           /\ \A f \in DataFields : got.product[f] = req.body[f]

\* a create of a body with all five fields has been answered 201
C5_Witness ==
    /\ IsCreate(req)
    /\ res.status = 201
    /\ \A f \in DataFields : req.body[f] # Undef
    /\ Len(products) = 4

(* --------------------------------- C6 --------------------------------- *)
OnlyPrice(b) == b.price # Undef /\ \A f \in Fields \ {"price"} : b[f] = Undef

C7_DeleteThenNotFound ==
    [][ (IsDelete(req') /\ res'.status = 204)
        => /\ Len(products') = Len(products) - 1
           /\ FetchById(products', req'.path[3]) = ErrorJson(404, "Product not found") ]_vars

(* --------------------------------- C8 --------------------------------- *)
\* the products that pass the category and search filters of the query
Filtered(ps, q) ==
    LET InCategory(p) == ~Truthy(q.category) \/ p.category = q.category
        NameHas(p) == \/ ~Truthy(q.search)
                      \/ includes(toLowerCase(CharsOf(p.name.s)),
                                  toLowerCase(CharsOf(q.search.s)))
    IN  SelectSeq(SelectSeq(ps, InCategory), NameHas)

\* C8: GET /api/products answers 200 {total, page, limit, products}: total is
\* the number of filtered products, products the slice
\* [(page-1)*limit, (page-1)*limit+limit) of them, page defaults to 1 and
\* limit to 10.
C8_ListPaginated ==
    IsList(req)
    => LET page == parseInt(Default(req.query.page, Num(1)))
           limit == parseInt(Default(req.query.limit, Num(10)))
           all == Filtered(products, req.query)
       IN  /\ res.status = 200
           /\ res.shape = "page"
           /\ res.total = Len(all)
           /\ res.page = page
           /\ res.limit = limit
           /\ (~page.nan /\ ~limit.nan /\ page.v >= 1 /\ limit.v >= 0)
                => res.products = SubSeq(all, (page.v - 1) * limit.v + 1,
                                         Min(Len(all), (page.v - 1) * limit.v + limit.v))

(* --------------------------------- C9 --------------------------------- *)
\* C9: the answer to GET /api/products?category=c holds only products of
\* category c, and all of them up to the page limit; on the seeded collection
\* category=electronics gives total 2, Laptop and Smartphone.
C9_CategoryFilter ==
    (IsList(req) /\ Truthy(req.query.category))
    => /\ \A k \in 1..Len(res.products) : res.products[k].category = req.query.category
       /\ (products = SeedProducts /\ req.query = Query(Str("electronics"), Undef, Undef, Undef))
            => (res.total = 2 /\ res.products = SubSeq(SeedProducts, 1, 2))

(* --------------------------------- C10 -------------------------------- *)
\* C10: GET /api/products/stats answers 200 with the number of products of
\* each category present in the collection; the counts sum to the number of
\* products.
RECURSIVE SumOver(_, _)
SumOver(f, keys) ==
    IF keys = {} THEN 0
    ELSE LET k == CHOOSE x \in keys : TRUE IN f[k] + SumOver(f, keys \ {k})

C10_StatsByCategory ==
    IsStats(req)
    => /\ res.status = 200
       /\ res.shape = "stats"
       /\ DOMAIN res.stats = {PropertyKey(products[i].category) : i \in 1..Len(products)}
       /\ \A c \in DOMAIN res.stats :
             res.stats[c] = Cardinality({i \in 1..Len(products) :
                                            PropertyKey(products[i].category) = c})
       /\ SumOver(res.stats, DOMAIN res.stats) = Len(products)


(* --------------------------------- C11 -------------------------------- *)
\* the position of the first occurrence of stage h in the stages run, 0 if none
RECURSIVE IndexOf(_, _, _)
IndexOf(tr, h, i) ==
    IF i > Len(tr) THEN 0 ELSE IF tr[i] = h THEN i ELSE IndexOf(tr, h, i + 1)

\* C11: every request, whatever its method and path, passes through the
\* logger, which writes one log line for it and calls the next stage, before
\* the handler that answers it.
C11_LoggedBeforeAnswer ==
    nreq > 0
    => /\ IndexOf(trace, "logger", 1) # 0
       /\ IndexOf(trace, "logger", 1) < Len(trace)
       /\ Len(log) = nreq
       /\ log[Len(log)] = LogLine(req)


(* --------------------------------- C12 -------------------------------- *)
\* C12: after any sequence of requests every product of the collection has a
\* truthy name, description and category, a number as price and a boolean as
\* inStock.
C12_StoredProductsValid ==
    \A k \in 1..Len(products) : BodyValid(products[k])

(* --------------------------------- C14 -------------------------------- *)
\* C14: on the create and update routes a request with a wrong key and an
\* invalid body is answered 401, never 400; a PUT with the right key and an
\* invalid body on an id that no product has is answered 400, never 404.
C14_AuthenticateBeforeValidate ==
    [][ /\ ((IsCreate(req') \/ IsUpdate(req')) /\ ~req'.malformed
               /\ req'.key # Str("my-secret-key") /\ ~BodyValid(req'.body))
            => res'.status = 401
        /\ (IsUpdate(req') /\ ~req'.malformed /\ req'.key = Str("my-secret-key")
               /\ ~BodyValid(req'.body) /\ findIndex(products, Str(req'.path[3])) = 0)
            => res'.status = 400 ]_vars


(* --------------------------------- C13 -------------------------------- *)
\* C13: the error responder answers every error that reaches it once: a
\* NotFoundError with 404 and a ValidationError with 400, each with body
\* {error: <error name>, message}; any other error with 500 and body
\* {error: "InternalServerError", message}.
C13_ErrorResponder ==
    err # NoError
    => /\ sent = 1
       /\ trace[Len(trace)] = "errorHandler"
       /\ res.shape = "error"
       /\ res.message = err.message
       /\ err.class = "NotFoundError" => (res.status = 404 /\ res.error = "NotFoundError")
       /\ err.class = "ValidationError" => (res.status = 400 /\ res.error = "ValidationError")
       /\ err.class \notin {"NotFoundError", "ValidationError"}
            => (res.status = 500 /\ res.error = "InternalServerError")

\* a NotFoundError has been answered 404
C13_Witness ==
    /\ err = NotFoundError("Product not found")
    /\ res = ErrorMessageJson(404, "NotFoundError", "Product not found")
    /\ trace = <<"errorHandler">>


Without(arr, i) == SubSeq(arr, 1, i - 1) \o SubSeq(arr, i + 1, Len(arr))

\* C16: a successful create puts the new record last and changes no other
\* position; a successful update replaces the record at its index; a
\* successful delete removes one record and keeps the order of the others.
C16_InsertionOrder ==
    [][ /\ (IsCreate(req') /\ res'.status = 201)
            => products' = Append(products, res'.product)
        /\ (IsUpdate(req') /\ res'.status = 200)
            => LET index == findIndex(products, Str(req'.path[3]))
               IN  /\ index # 0
                   /\ Len(products') = Len(products)
                   /\ products'[index] = res'.product
                   /\ \A k \in 1..Len(products) : k # index => products'[k] = products[k]
        /\ (IsDelete(req') /\ res'.status = 204)
            => \E i \in 1..Len(products) :
                  /\ products[i].id = Str(req'.path[3])
                  /\ products' = Without(products, i) ]_vars

\* the first record of a four-record collection has been deleted
C16_Witness ==
    /\ IsDelete(req)
    /\ res.status = 204
    /\ req.path[3] = "1"
    /\ Len(products) = 3
    /\ products[1] = SeedProducts[2]
    /\ products[2] = SeedProducts[3]
    /\ products[3].id = Str("uuid-1")

(* --------------------------------- C17 -------------------------------- *)
\* C17: GET /, GET /api/products with any query, GET /api/products/:id found
\* or not, and GET /api/products/stats leave the collection as it was.
C17_ReadsDoNotModify ==
    [][ (req'.method = "GET"
            /\ (req'.path = <<>> \/ IsList(req')
                  \/ (Len(req'.path) = 3 /\ SubSeq(req'.path, 1, 2) = Collection)))
        => products' = products ]_vars

\* the list has been read after an update changed the collection
C17_Witness ==
    /\ IsList(req)
    /\ res.shape = "array"
    /\ res.products = products
    /\ products # SeedProducts

(* --------------------------------- C18 -------------------------------- *)
\* stages that call next() without answering
PassThrough == {"bodyParser", "logger", "authenticate", "validateProduct"}

\* the stages of the last request that answered
Responders(tr) == {k \in 1..Len(tr) : tr[k] \notin PassThrough}

\* the handlers of the later, duplicate registrations
LaterDuplicates == {"listProducts", "createProductGuarded", "updateProductGuarded"}

HasRoute(rq) == \E i \in 1..Len(Layers) : Layers[i].kind = "route" /\ Matches(Layers[i], rq)

FirstRoute(rq) ==
    CHOOSE i \in 1..Len(Layers) :
        /\ Layers[i].kind = "route" /\ Matches(Layers[i], rq)
        /\ \A j \in 1..(i - 1) : ~(Layers[j].kind = "route" /\ Matches(Layers[j], rq))

====
